---- MODULE Spec2Model ----
(***************************************************************************)
(* mghash: content-hash based build skipping.                              *)
(*                                                                         *)
(*   Fn.Run        (mghash.go)   the skip / run / record decision          *)
(*   JRule         (jrule.go)    ContentHash over the declared files, Run  *)
(*   sqlite.DB     (sqlite)      the persistent hash table, Has and Add    *)
(*                                                                         *)
(* SHA-256 and canonical JSON are modelled as injective constructors: a    *)
(* digest is the value it was computed from, wrapped in a record.          *)
(***************************************************************************)
EXTENDS Integers, Sequences, FiniteSets, TLC

\* ------------------------------------------------------------------ bounds
MaxTime == 1
MaxExt == 2
MaxInvocations == 3

\* ------------------------------------------------------------- the universe
Procs == {1}
Contents == {"x", "y"}
NoFile == "absent"
FileStates == Contents \cup {NoFile}

\* The rule of the README example, with cp as the command.
Rule == [Sources |-> <<"a">>, Targets |-> <<"b">>, Command |-> <<"cp", "a", "b">>]

Range(s) == {s[i] : i \in DOMAIN s}
Paths == Range(Rule.Sources) \cup Range(Rule.Targets)

\* Retention windows a handle may be opened with (seconds); 0 is the default.
KeepChoices == {0, 1}

\* ------------------------------------------------------------ JRule hashing
NilBytes == [nil |-> TRUE]
EmptyMap == [k \in {} |-> NilBytes]
MapPut(m, k, v) == [x \in (DOMAIN m) \cup {k} |-> IF x = k THEN v ELSE m[x]]

\* sha256 of a byte stream.
Sha256(bytes) == [sum |-> bytes]

\* hashFile: open, stream into the hasher, close.
hashFile(fs, unr, path) ==
    IF fs[path] = NoFile THEN [h |-> NilBytes, err |-> "ErrNotExist"]
    ELSE IF path \in unr THEN [h |-> NilBytes, err |-> "EIO"]
    ELSE [h |-> Sha256(fs[path]), err |-> "nil"]

\* A variant that returns the error of a missing file like any other.
FillOneStrict(hashes, file, r) ==
    IF r.err # "nil" THEN [hashes |-> hashes, err |-> TRUE]
    ELSE [hashes |-> MapPut(hashes, file, r.h), err |-> FALSE]

\* One iteration of the loop of fillWithFileHashes on the result r of
\* hashFile(file): a missing file is stored as nil, any other error returns.
FillOne(hashes, file, r) ==
    IF r.err = "ErrNotExist" THEN [hashes |-> MapPut(hashes, file, NilBytes), err |-> FALSE]
    ELSE IF r.err # "nil" THEN [hashes |-> hashes, err |-> TRUE]
    ELSE [hashes |-> MapPut(hashes, file, r.h), err |-> FALSE]

\* The strings of the model in Go's string order (byte by byte), the order
\* of sort.Strings and of the keys of a marshalled map.  "\\xfe" and "\\xff"
\* stand for the one-byte strings "\xfe" and "\xff", which are not UTF-8.
ByteOrder == <<"a", "b", "cp", "\\xfe", "\\xff">>
Rank(str) == CHOOSE i \in DOMAIN ByteOrder : ByteOrder[i] = str
InvalidUTF8 == {"\\xfe", "\\xff"}

\* sort.Strings.
RECURSIVE SortStrings(_)
SortStrings(strs) ==
    IF strs = <<>> THEN <<>>
    ELSE LET rest == SortStrings(Tail(strs))
             k == Cardinality({i \in DOMAIN rest : Rank(rest[i]) <= Rank(Head(strs))})
         IN SubSeq(rest, 1, k) \o <<Head(strs)>> \o SubSeq(rest, k + 1, Len(rest))

\* json.Marshal of a string: invalid UTF-8 bytes are replaced by U+FFFD.
JsonString(str) == IF str \in InvalidUTF8 THEN "\\ufffd" ELSE str

\* json.Marshal of a []string.
JsonStrings(strs) == [i \in DOMAIN strs |-> JsonString(strs[i])]

\* json.Marshal of a map[string][]byte: the entries in the order of their
\* keys, each key marshalled as a string.
JsonMap(m) ==
    LET keys == [i \in 1..Cardinality(DOMAIN m) |->
                    CHOOSE k \in DOMAIN m :
                        Cardinality({j \in DOMAIN m : Rank(j) < Rank(k)}) = i - 1]
    IN [i \in DOMAIN keys |-> <<JsonString(keys[i]), m[keys[i]]>>]

\* A variant that leaves the targets out of the digest.
SumSourcesOnly(sources, targets, command) ==
    Sha256([sources |-> JsonMap(sources), targets |-> <<>>,
            command |-> JsonStrings(command)])

\* json.Marshal of {sources, targets, command} followed by sha256.Sum256.
MarshalSum(sources, targets, command) ==
    Sha256([sources |-> JsonMap(sources), targets |-> JsonMap(targets),
            command |-> JsonStrings(command)])

\* JRule.RuleHash: the rule with its sources and its targets sorted,
\* marshalled and summed.
RuleHash(jr) ==
    Sha256([sources |-> JsonStrings(SortStrings(jr.Sources)),
            targets |-> JsonStrings(SortStrings(jr.Targets)),
            command |-> JsonStrings(jr.Command)])

NilHash == [nil |-> TRUE]

\* The files ContentHash reads, in the order it reads them.
ReadOrder(jr) == jr.Sources \o jr.Targets

\* ContentHash of jr on a file system that does not change during the call.
RECURSIVE FillAll(_, _, _, _, _)
FillAll(files, i, hashes, fs, unr) ==
    IF i > Len(files) THEN [hashes |-> hashes, err |-> FALSE]
    ELSE LET st == FillOne(hashes, files[i], hashFile(fs, unr, files[i]))
         IN IF st.err THEN st ELSE FillAll(files, i + 1, st.hashes, fs, unr)

ContentHash(jr, fs, unr) ==
    LET s == FillAll(jr.Sources, 1, EmptyMap, fs, unr)
        t == FillAll(jr.Targets, 1, EmptyMap, fs, unr)
    IN IF s.err \/ t.err THEN [h |-> NilHash, err |-> TRUE]
       ELSE [h |-> MarshalSum(s.hashes, t.hashes, jr.Command), err |-> FALSE]

\* ------------------------------------------------------------- sqlite store
\* The table hashes(hash PRIMARY KEY, unix_secs) is a function hash -> secs.
EmptyTable == [k \in {} |-> 0]

\* A variant of q that keeps only the row it writes.
UpsertOnlyLatest(tbl, args) ==
    IF Len(args) < 2 THEN [table |-> tbl, err |-> TRUE]
    ELSE [table |-> MapPut(EmptyTable, args[1], args[2]), err |-> FALSE]

\* The statement q of Add, INSERT ... VALUES ($1, $2) ON CONFLICT DO UPDATE,
\* executed with the argument list args: it has two parameters.
ExecUpsert(tbl, args) ==
    IF Len(args) < 2 THEN [table |-> tbl, err |-> TRUE]
    ELSE [table |-> MapPut(tbl, args[1], args[2]), err |-> FALSE]

\* The statement q2, DELETE FROM hashes WHERE unix_secs < $1.
ExecDelete(tbl, args) ==
    IF Len(args) < 1 THEN [table |-> tbl, err |-> TRUE]
    ELSE [table |-> [k \in {x \in DOMAIN tbl : ~(tbl[x] < args[1])} |-> tbl[k]],
          err |-> FALSE]

\* A variant of Has that reads "rows affected" as "rows whose value changed".
HasChangedRows(tbl, h, now) ==
    [table |-> IF h \in DOMAIN tbl THEN [tbl EXCEPT ![h] = now] ELSE tbl,
     ok |-> h \in DOMAIN tbl /\ tbl[h] # now,
     err |-> FALSE]

\* A variant of Has that writes the row with an upsert, as Add does.
HasUpserts(tbl, h, now) ==
    [table |-> ExecUpsert(tbl, <<h, now>>).table,
     ok |-> h \in DOMAIN tbl,
     err |-> FALSE]

\* DB.Has on an open handle: UPDATE ... SET unix_secs = now WHERE hash = h,
\* and the answer is RowsAffected > 0.
DBHas(tbl, h, now) ==
    [table |-> IF h \in DOMAIN tbl THEN [tbl EXCEPT ![h] = now] ELSE tbl,
     ok |-> h \in DOMAIN tbl,
     err |-> FALSE]

\* The first statement of DB.Add.
AddUpsert(tbl, h, now) == ExecUpsert(tbl, <<h, now>>)

\* A variant of the tail of Add that runs q2, and for every retention window.
EvictUnconditionalQ2(tbl, keep, now) == ExecDelete(tbl, <<now - keep>>)

\* The tail of DB.Add: with a retention window it executes q (not q2) with
\* the single argument now - keep; without one it returns nil.
AddEvict(tbl, keep, now) ==
    IF keep > 0 THEN ExecUpsert(tbl, <<now - keep>>)
    ELSE [table |-> tbl, err |-> FALSE]

\* DB.Add on an open handle, start to end.
DBAdd(tbl, h, now, keep) ==
    LET u == AddUpsert(tbl, h, now)
    IN IF u.err THEN u ELSE AddEvict(u.table, keep, now)

\* A variant that runs the statement whatever the state of the context.
ExecNoContext(done) == FALSE

\* db.db.ExecContext(ctx, ...): with a context that is done it runs nothing
\* and returns the context's error.
CtxErr(done) == done

\* ------------------------------------------ the table, row by row
\* The statements again, on the rows of the table, for handles whose
\* statements interleave.  A row is [hash, secs].

\* A schema without the PRIMARY KEY: no insert ever conflicts.
NoPrimaryKey(rs, hh) == FALSE

\* hash is the PRIMARY KEY: an insert of hh conflicts with a row that has it.
Conflicts(rs, hh) == \E r \in rs : r.hash = hh

\* q, the INSERT ... ON CONFLICT DO UPDATE, as one statement.
RowsUpsert(rs, hh, secs) ==
    IF Conflicts(rs, hh)
    THEN {IF r.hash = hh THEN [r EXCEPT !.secs = secs] ELSE r : r \in rs}
    ELSE rs \cup {[hash |-> hh, secs |-> secs]}

\* The UPDATE of Has as one statement, with its RowsAffected.
RowsUpdate(rs, hh, secs) ==
    [rows |-> {IF r.hash = hh THEN [r EXCEPT !.secs = secs] ELSE r : r \in rs},
     affected |-> Cardinality({r \in rs : r.hash = hh})]

\* The rows as the table hash -> unix_secs.
TableOf(rs) ==
    [hh \in {r.hash : r \in rs} |-> CHOOSE t \in {r.secs : r \in {x \in rs : x.hash = hh}} : TRUE]

\* --------------------------------------------------------------- JRule.Run
\* What the command may do: build every target from the first source (cp),
\* exit 0 without touching a file, or fail.
RunOutcomes == {"built", "noop", "error"}

\* exec.CommandContext(ctx, ...): with a context that is done the command is
\* not started, or is killed, and cmd.Run returns an error.
Killed(done) == done

CanBuild(fs, unr) ==
    LET s == Rule.Sources[1] IN fs[s] # NoFile /\ s \notin unr

RunEffect(fs, outcome) ==
    IF outcome = "built"
    THEN [files |-> [f \in DOMAIN fs |->
                        IF f \in Range(Rule.Targets) THEN fs[Rule.Sources[1]] ELSE fs[f]],
          err |-> FALSE]
    ELSE [files |-> fs, err |-> outcome = "error"]

\* ------------------------------------------------------- Fn.Run, the engine
Terminal == {"satisfied", "recorded", "failed"}

AfterHash(err) == IF err THEN "failed" ELSE "has"

\* A variant that always takes the miss path.
AfterHasAlwaysRun(ok, err) == IF err THEN "failed" ELSE "run"

AfterHas(ok, err) == IF err THEN "failed" ELSE IF ok THEN "satisfied" ELSE "run"

\* A variant that ignores the error of Rule.Run.
AfterRunIgnoreErr(err) == "hash2"

AfterRun(err) == IF err THEN "failed" ELSE "hash2"

\* A variant that ignores the error of the second ContentHash.
AfterRehashIgnoreErr(err) == "add"

AfterRehash(err) == IF err THEN "failed" ELSE "add"

\* A variant that records the hash computed before Rule.Run.
RecordedHashPre(hPre, hPost) == hPre

\* The hash handed to DB.Add: h was overwritten by the second ContentHash.
RecordedHash(hPre, hPost) == hPost

Event(op, h, err, found) == [op |-> op, h |-> h, err |-> err, found |-> found]

VARIABLES
    files,        \* path -> content, or NoFile
    unreadable,   \* the existing paths whose read fails
    builtFrom,    \* the source content the current target bytes were built from
    extChanges,   \* external changes made so far
    table,        \* the persistent table: hash -> unix_secs
    dbOpen,       \* whether the handle is open
    keep,         \* the handle's retention window
    now,          \* the clock, in seconds
    pc,           \* per invocation: where Fn.Run is
    idx,          \* per invocation: the next file ContentHash reads
    srcs,         \* per invocation: the sources map being filled
    tgts,         \* per invocation: the targets map being filled
    hPre,         \* per invocation: the hash computed before Rule.Run
    h,            \* per invocation: the variable h of Fn.Run
    err,          \* per invocation: the error Fn.Run returned
    events,       \* per invocation: the calls it made, in order
    invocations,  \* invocations started so far
    phase,        \* history: "recorded", "deleted" or "dirty"
    after,        \* per invocation: phase when it started
    ranClean,     \* per invocation: no file changed since its Rule.Run returned
    cycleHash,    \* history: the hash of the last recorded cycle
    last,         \* the last direct call on the store and its result
    addedOK,      \* history: hash -> last access, for hashes whose Add returned nil
    cancelled,    \* per invocation: whether its context is done
    rows,         \* the table as the rows several handles write, statement by statement
    cpc,          \* per client handle: "idle", or "evict" between the statements of Add
    carg,         \* per client handle: the hash its Add is adding, and whether it was there
    cres,         \* per client handle: what its last call returned
    probe         \* the rules and file states handed to RuleHash and ContentHash

fsVars == <<files, unreadable, builtFrom, extChanges>>
dbVars == <<table, dbOpen, keep>>
fnVars == <<pc, idx, srcs, tgts, hPre, h, err, events, invocations, cancelled>>
histVars == <<phase, after, ranClean, cycleHash>>
callVars == <<last, addedOK>>
concVars == <<rows, cpc, carg, cres>>
vars == <<fsVars, dbVars, now, fnVars, histVars, callVars, concVars, probe>>

\* The handles that use the table at the same time.
Clients == {1, 2}
NoArg == [h |-> NilHash, had |-> FALSE]
NoProbe == [stage |-> "none"]

NoCall == [op |-> "none", h |-> NilHash, ok |-> FALSE, err |-> FALSE, owed |-> FALSE]

\* Everything but the files, the handle's option and the probe.
InitRest ==
    /\ unreadable = {}
    /\ builtFrom = "none"
    /\ extChanges = 0
    /\ table = EmptyTable
    /\ dbOpen = TRUE
    /\ now = 0
    /\ pc = [p \in Procs |-> "idle"]
    /\ idx = [p \in Procs |-> 1]
    /\ srcs = [p \in Procs |-> EmptyMap]
    /\ tgts = [p \in Procs |-> EmptyMap]
    /\ hPre = [p \in Procs |-> NilHash]
    /\ h = [p \in Procs |-> NilHash]
    /\ err = [p \in Procs |-> "nil"]
    /\ events = [p \in Procs |-> <<>>]
    /\ invocations = 0
    /\ phase = "dirty"
    /\ after = [p \in Procs |-> "dirty"]
    /\ ranClean = [p \in Procs |-> FALSE]
    /\ cycleHash = NilHash
    /\ last = NoCall
    /\ addedOK = EmptyTable
    /\ cancelled = [p \in Procs |-> FALSE]
    /\ rows = {}
    /\ cpc = [c \in Clients |-> "idle"]
    /\ carg = [c \in Clients |-> NoArg]
    /\ cres = [c \in Clients |-> "none"]

Init ==
    /\ files \in [Paths -> FileStates]
    /\ keep \in KeepChoices
    /\ probe = NoProbe
    /\ InitRest

\* History bookkeeping: a declared file changed.
Dirty ==
    /\ phase' = "dirty"
    /\ after' = [q \in Procs |-> "dirty"]
    /\ ranClean' = [q \in Procs |-> FALSE]

\* --------------------------------------------------------- engine actions
\* Fn.Run is entered.
Start(p) ==
    /\ pc[p] \in Terminal \cup {"idle"}
    /\ invocations < MaxInvocations
    /\ invocations' = invocations + 1
    /\ pc' = [pc EXCEPT ![p] = "hash1"]
    /\ idx' = [idx EXCEPT ![p] = 1]
    /\ srcs' = [srcs EXCEPT ![p] = EmptyMap]
    /\ tgts' = [tgts EXCEPT ![p] = EmptyMap]
    /\ hPre' = [hPre EXCEPT ![p] = NilHash]
    /\ h' = [h EXCEPT ![p] = NilHash]
    /\ err' = [err EXCEPT ![p] = "nil"]
    /\ events' = [events EXCEPT ![p] = <<>>]
    /\ after' = [after EXCEPT ![p] = IF dbOpen THEN phase ELSE "dirty"]
    /\ ranClean' = [ranClean EXCEPT ![p] = FALSE]
    /\ UNCHANGED <<fsVars, dbVars, now, phase, cycleHash, callVars>>
    /\ cancelled' = [cancelled EXCEPT ![p] = FALSE]
    /\ UNCHANGED <<concVars, probe>>

\* Rule.ContentHash reads its next file; after the last one it marshals and
\* sums, and Fn.Run goes on (to Has the first time, to Add the second).
HashStep(p) ==
    /\ pc[p] \in {"hash1", "hash2"}
    /\ LET order == ReadOrder(Rule)
           file == order[idx[p]]
           isSrc == idx[p] <= Len(Rule.Sources)
           st == FillOne(IF isSrc THEN srcs[p] ELSE tgts[p], file,
                         hashFile(files, unreadable, file))
           s2 == IF isSrc THEN st.hashes ELSE srcs[p]
           t2 == IF isSrc THEN tgts[p] ELSE st.hashes
           sum == MarshalSum(s2, t2, Rule.Command)
           first == pc[p] = "hash1"
       IN IF st.err
          THEN /\ pc' = [pc EXCEPT ![p] = IF first THEN AfterHash(TRUE) ELSE AfterRehash(TRUE)]
               /\ err' = [err EXCEPT ![p] = IF first THEN "computing content hash"
                                            ELSE "recomputing content hash"]
               /\ events' = [events EXCEPT ![p] = Append(@, Event("ContentHash", NilHash, TRUE, FALSE))]
               /\ h' = [h EXCEPT ![p] = NilHash]
               /\ UNCHANGED <<idx, srcs, tgts, hPre>>
          ELSE IF idx[p] < Len(order)
          THEN /\ idx' = [idx EXCEPT ![p] = @ + 1]
               /\ srcs' = [srcs EXCEPT ![p] = s2]
               /\ tgts' = [tgts EXCEPT ![p] = t2]
               /\ UNCHANGED <<pc, err, events, h, hPre>>
          ELSE /\ pc' = [pc EXCEPT ![p] = IF first THEN AfterHash(FALSE) ELSE AfterRehash(FALSE)]
               /\ h' = [h EXCEPT ![p] = sum]
               /\ hPre' = [hPre EXCEPT ![p] = IF first THEN sum ELSE @]
               /\ events' = [events EXCEPT ![p] = Append(@, Event("ContentHash", sum, FALSE, FALSE))]
               /\ idx' = [idx EXCEPT ![p] = 1]
               /\ srcs' = [srcs EXCEPT ![p] = EmptyMap]
               /\ tgts' = [tgts EXCEPT ![p] = EmptyMap]
               /\ UNCHANGED err
    /\ UNCHANGED <<fsVars, dbVars, now, invocations, histVars, callVars>>
    /\ UNCHANGED cancelled
    /\ UNCHANGED <<concVars, probe>>

\* f.DB.Has(ctx, h) and the branch on its result.
HasStep(p) ==
    /\ pc[p] = "has"
    /\ LET r == IF dbOpen /\ ~CtxErr(cancelled[p]) THEN DBHas(table, h[p], now)
                ELSE [table |-> table, ok |-> FALSE, err |-> TRUE]
       IN /\ table' = r.table
          /\ pc' = [pc EXCEPT ![p] = AfterHas(r.ok, r.err)]
          /\ err' = [err EXCEPT ![p] = IF r.err THEN "consulting hash DB" ELSE "nil"]
          /\ events' = [events EXCEPT ![p] = Append(@, Event("Has", h[p], r.err, r.ok))]
    /\ UNCHANGED <<fsVars, dbOpen, keep, now, idx, srcs, tgts, hPre, h, invocations,
                   histVars, callVars>>
    /\ UNCHANGED cancelled
    /\ UNCHANGED <<concVars, probe>>

\* f.Rule.Run(ctx) and the branch on its error.
RunStep(p) ==
    /\ pc[p] = "run"
    /\ \E outcome \in RunOutcomes :
          /\ outcome = "built" => CanBuild(files, unreadable)
          /\ Killed(cancelled[p]) => outcome = "error"
          /\ LET r == RunEffect(files, outcome)
             IN /\ files' = r.files
                /\ builtFrom' = IF outcome = "built" THEN files[Rule.Sources[1]] ELSE builtFrom
                /\ pc' = [pc EXCEPT ![p] = AfterRun(r.err)]
                /\ err' = [err EXCEPT ![p] = IF r.err THEN "in Run" ELSE "nil"]
                /\ events' = [events EXCEPT ![p] = Append(@, Event("Run", NilHash, r.err, FALSE))]
                /\ IF r.files # files
                   THEN /\ phase' = "dirty"
                        /\ after' = [q \in Procs |-> "dirty"]
                        /\ ranClean' = [q \in Procs |-> q = p /\ ~r.err]
                   ELSE /\ ranClean' = [ranClean EXCEPT ![p] = ~r.err]
                        /\ UNCHANGED <<phase, after>>
    /\ UNCHANGED <<unreadable, extChanges, dbVars, now, idx, srcs, tgts, hPre, h,
                   invocations, cycleHash, callVars>>
    /\ UNCHANGED cancelled
    /\ UNCHANGED <<concVars, probe>>

\* f.DB.Add(ctx, h): its first statement, the upsert.
AddStep(p) ==
    /\ pc[p] = "add"
    /\ LET arg == RecordedHash(hPre[p], h[p])
           r == IF dbOpen /\ ~CtxErr(cancelled[p]) THEN AddUpsert(table, arg, now)
                ELSE [table |-> table, err |-> TRUE]
           grows == DOMAIN r.table # DOMAIN table
       IN /\ table' = r.table
          /\ pc' = [pc EXCEPT ![p] = IF r.err THEN "failed" ELSE "evict"]
          /\ err' = [err EXCEPT ![p] = IF r.err THEN "adding hash to database" ELSE "nil"]
          /\ events' = [events EXCEPT ![p] = Append(@, Event("Add", arg, r.err, FALSE))]
          /\ phase' = IF grows THEN "dirty" ELSE phase
          /\ after' = IF grows THEN [q \in Procs |-> "dirty"] ELSE after
    /\ UNCHANGED <<fsVars, dbOpen, keep, now, idx, srcs, tgts, hPre, h, invocations,
                   ranClean, cycleHash, callVars>>
    /\ UNCHANGED cancelled
    /\ UNCHANGED <<concVars, probe>>

\* f.DB.Add(ctx, h): the eviction, if a retention window is set, and return.
AddReturn(p) ==
    /\ pc[p] = "evict"
    /\ LET r == IF dbOpen \/ keep = 0 THEN AddEvict(table, keep, now)
                ELSE [table |-> table, err |-> TRUE]
           arg == events[p][Len(events[p])].h
       IN /\ table' = r.table
          /\ pc' = [pc EXCEPT ![p] = IF r.err THEN "failed" ELSE "recorded"]
          /\ err' = [err EXCEPT ![p] = IF r.err THEN "evicting expired database entries"
                                       ELSE "nil"]
          /\ IF ~r.err /\ ranClean[p] /\ dbOpen
             THEN /\ phase' = "recorded"
                  /\ cycleHash' = arg
                  /\ after' = [q \in Procs |-> "dirty"]
             ELSE UNCHANGED <<phase, cycleHash, after>>
          /\ addedOK' = IF r.err THEN addedOK ELSE MapPut(addedOK, arg, now)
    /\ UNCHANGED <<fsVars, dbOpen, keep, now, idx, srcs, tgts, hPre, h, events,
                   invocations, ranClean, last>>
    /\ UNCHANGED cancelled
    /\ UNCHANGED <<concVars, probe>>

\* ------------------------------------------------------- the environment
\* The context handed to Fn.Run becomes done while a step before Add is
\* under way.
Cancel(p) ==
    /\ pc[p] \in {"hash1", "has", "run", "hash2"}
    /\ ~cancelled[p]
    /\ cancelled' = [cancelled EXCEPT ![p] = TRUE]
    /\ UNCHANGED <<fsVars, dbVars, now, pc, idx, srcs, tgts, hPre, h, err, events,
                   invocations, histVars, callVars, concVars, probe>>

ExtWrite(f, c) ==
    /\ extChanges < MaxExt
    /\ files[f] # c
    /\ files' = [files EXCEPT ![f] = c]
    /\ builtFrom' = IF f \in Range(Rule.Targets) THEN "none" ELSE builtFrom
    /\ extChanges' = extChanges + 1
    /\ Dirty
    /\ UNCHANGED <<unreadable, dbVars, now, fnVars, cycleHash, callVars>>
    /\ UNCHANGED <<concVars, probe>>

ExtDelete(f) ==
    /\ extChanges < MaxExt
    /\ files[f] # NoFile
    /\ files' = [files EXCEPT ![f] = NoFile]
    /\ unreadable' = unreadable \ {f}
    /\ builtFrom' = IF f \in Range(Rule.Targets) THEN "none" ELSE builtFrom
    /\ extChanges' = extChanges + 1
    /\ phase' = IF phase = "recorded" /\ f \in Range(Rule.Targets) THEN "deleted" ELSE "dirty"
    /\ after' = [q \in Procs |-> "dirty"]
    /\ ranClean' = [q \in Procs |-> FALSE]
    /\ UNCHANGED <<dbVars, now, fnVars, cycleHash, callVars>>
    /\ UNCHANGED <<concVars, probe>>

\* A declared file becomes unreadable (permissions, a failing disk).
ExtBreak(f) ==
    /\ extChanges < MaxExt
    /\ files[f] # NoFile
    /\ f \notin unreadable
    /\ unreadable' = unreadable \cup {f}
    /\ extChanges' = extChanges + 1
    /\ Dirty
    /\ UNCHANGED <<files, builtFrom, dbVars, now, fnVars, cycleHash, callVars>>
    /\ UNCHANGED <<concVars, probe>>

Tick ==
    /\ now < MaxTime
    /\ now' = now + 1
    /\ UNCHANGED <<fsVars, dbVars, fnVars, histVars, callVars>>
    /\ UNCHANGED <<concVars, probe>>

\* DB.Close.
Close ==
    /\ dbOpen
    /\ dbOpen' = FALSE
    /\ phase' = "dirty"
    /\ after' = [q \in Procs |-> "dirty"]
    /\ last' = NoCall
    /\ UNCHANGED <<fsVars, table, keep, now, fnVars, ranClean, cycleHash, addedOK>>
    /\ UNCHANGED <<concVars, probe>>

\* Open on the same file by a new run of the program.
Open(k) ==
    /\ ~dbOpen
    /\ \A p \in Procs : pc[p] \in Terminal \cup {"idle"}
    /\ dbOpen' = TRUE
    /\ keep' = k
    /\ pc' = [p \in Procs |-> "idle"]
    /\ err' = [p \in Procs |-> "nil"]
    /\ events' = [p \in Procs |-> <<>>]
    /\ hPre' = [p \in Procs |-> NilHash]
    /\ h' = [p \in Procs |-> NilHash]
    /\ UNCHANGED <<fsVars, table, now, idx, srcs, tgts, invocations, histVars, callVars>>
    /\ cancelled' = [p \in Procs |-> FALSE]
    /\ UNCHANGED <<concVars, probe>>

\* ------------------------------------------- direct calls on the store
\* The hashes handed to the store directly: content hashes of a few states.
StoreInputs ==
    {ContentHash(Rule, [a |-> "x", b |-> t], {}).h : t \in FileStates}

Elapsed(acc) == keep > 0 /\ acc + keep <= now

CallHas(hh) ==
    /\ dbOpen
    /\ LET r == DBHas(table, hh, now)
       IN /\ table' = r.table
          /\ last' = [op |-> "Has", h |-> hh, ok |-> r.ok, err |-> r.err,
                      owed |-> hh \in DOMAIN addedOK /\ ~Elapsed(addedOK[hh])]
          /\ addedOK' = IF r.ok /\ hh \in DOMAIN addedOK
                        THEN [addedOK EXCEPT ![hh] = now] ELSE addedOK
    /\ UNCHANGED <<fsVars, dbOpen, keep, now, fnVars, histVars>>
    /\ UNCHANGED <<concVars, probe>>

CallAdd(hh) ==
    /\ dbOpen
    /\ LET r == DBAdd(table, hh, now, keep)
       IN /\ table' = r.table
          /\ last' = [op |-> "Add", h |-> hh, ok |-> ~r.err, err |-> r.err, owed |-> FALSE]
          /\ addedOK' = IF ~r.err THEN MapPut(addedOK, hh, now) ELSE addedOK
    /\ UNCHANGED <<fsVars, dbOpen, keep, now, fnVars, histVars>>
    /\ UNCHANGED <<concVars, probe>>

\* ------------------------------ several handles on the same table
\* DB.Has by client c: one statement.
ConcHas(c, hh) ==
    /\ dbOpen
    /\ cpc[c] = "idle"
    /\ LET r == RowsUpdate(rows, hh, now)
       IN /\ rows' = r.rows
          /\ cres' = [cres EXCEPT ![c] = IF r.affected > 0 THEN "hit" ELSE "miss"]
    /\ UNCHANGED <<fsVars, dbVars, now, fnVars, histVars, callVars, cpc, carg, probe>>

\* DB.Add by client c, its first statement: the upsert commits on its own.
ConcAddUpsert(c, hh) ==
    /\ dbOpen
    /\ cpc[c] = "idle"
    /\ rows' = RowsUpsert(rows, hh, now)
    /\ cpc' = [cpc EXCEPT ![c] = "evict"]
    /\ carg' = [carg EXCEPT ![c] = [h |-> hh, had |-> Conflicts(rows, hh)]]
    /\ UNCHANGED <<fsVars, dbVars, now, fnVars, histVars, callVars, cres, probe>>

\* DB.Add by client c, the rest: the eviction statement, and the return.
ConcAddReturn(c) ==
    /\ cpc[c] = "evict"
    /\ LET e == AddEvict(TableOf(rows), keep, now)
       IN /\ rows' = {r \in rows : r.hash \in DOMAIN e.table}
          /\ cres' = [cres EXCEPT ![c] = IF e.err THEN "error" ELSE "ok"]
    /\ cpc' = [cpc EXCEPT ![c] = "idle"]
    /\ carg' = [carg EXCEPT ![c] = NoArg]
    /\ UNCHANGED <<fsVars, dbVars, now, fnVars, histVars, callVars, probe>>

\* ------------------------------------------- the hashes as functions
\* The slices of at most two strings over a set.
Lists(S) == {<<>>} \cup {<<x>> : x \in S} \cup {<<x, y>> : x, y \in S}

\* The rules handed to RuleHash, two at a time.
ProbeRules ==
    [Sources : Lists({"a", "\\xfe", "\\xff"}),
     Targets : Lists({"b", "\\xfe"}),
     Command : {<<"cp", "a">>, <<"a", "cp">>, <<"cp", "\\xfe">>, <<"cp", "\\xff">>}]

\* The rules handed to ContentHash: their files are among those of Rule.
ContentRules ==
    [Sources : Lists(Paths),
     Targets : Lists(Range(Rule.Targets)),
     Command : {<<"cp">>, <<"cp", "\\xfe">>, <<"cp", "\\xff">>}]

\* Two rules for RuleHash; or, for ContentHash, one rule on two file
\* systems or two rules on one.
ProbeInput(x) ==
    \/ \E r1, r2 \in ProbeRules : x = [stage |-> "rules", r1 |-> r1, r2 |-> r2]
    \/ \E r \in ContentRules, fs1, fs2 \in [Paths -> FileStates], u \in SUBSET Paths :
          x = [stage |-> "files", r1 |-> r, r2 |-> r, fs1 |-> fs1, fs2 |-> fs2, unr |-> u]
    \/ \E r1, r2 \in ContentRules, fs \in [Paths -> FileStates], u \in SUBSET Paths :
          x = [stage |-> "files", r1 |-> r1, r2 |-> r2, fs1 |-> fs, fs2 |-> fs, unr |-> u]

ProbeRuleHash ==
    /\ probe.stage = "rules"
    /\ probe' = [stage |-> "ruleHashes", r1 |-> probe.r1, r2 |-> probe.r2,
                 rh1 |-> RuleHash(probe.r1), rh2 |-> RuleHash(probe.r2)]
    /\ UNCHANGED <<fsVars, dbVars, now, fnVars, histVars, callVars, concVars>>

ProbeContentHash ==
    /\ probe.stage = "files"
    /\ probe' = [stage |-> "contentHashes", r1 |-> probe.r1, r2 |-> probe.r2,
                 fs1 |-> probe.fs1, fs2 |-> probe.fs2, unr |-> probe.unr,
                 ch1 |-> ContentHash(probe.r1, probe.fs1, probe.unr),
                 ch2 |-> ContentHash(probe.r2, probe.fs2, probe.unr)]
    /\ UNCHANGED <<fsVars, dbVars, now, fnVars, histVars, callVars, concVars>>

\* ------------------------------------------------------- specifications
Next ==
    \/ \E p \in Procs : Start(p)
    \/ \E p \in Procs : HashStep(p)
    \/ \E p \in Procs : HasStep(p)
    \/ \E p \in Procs : RunStep(p)
    \/ \E p \in Procs : AddStep(p)
    \/ \E p \in Procs : AddReturn(p)
    \/ \E f \in Paths, c \in Contents : ExtWrite(f, c)
    \/ \E f \in Paths : ExtDelete(f)
    \/ \E f \in Paths : ExtBreak(f)
    \/ Close
    \/ \E k \in KeepChoices : Open(k)

\* Fn.Run, its context never cancelled, interleaved with its environment.
\* Fn.Run never reads the clock:
\* the timestamps the store writes are exercised by SpecStore.
Spec == Init /\ [][Next]_vars

NextCancel ==
    \/ \E p \in Procs : Start(p)
    \/ \E p \in Procs : HashStep(p)
    \/ \E p \in Procs : HasStep(p)
    \/ \E p \in Procs : RunStep(p)
    \/ \E p \in Procs : AddStep(p)
    \/ \E p \in Procs : AddReturn(p)
    \/ \E p \in Procs : Cancel(p)

\* Fn.Run with a context that may be cancelled under way, the files left
\* to Rule.Run.
SpecCancel == Init /\ [][NextCancel]_vars

NextStore ==
    \/ \E hh \in StoreInputs : CallHas(hh)
    \/ \E hh \in StoreInputs : CallAdd(hh)
    \/ Tick
    \/ Close
    \/ \E k \in KeepChoices : Open(k)

\* The store alone, under any sequence of Has, Add, Close and Open.
SpecStore == Init /\ [][NextStore]_vars

NextConc ==
    \/ \E c \in Clients, hh \in StoreInputs : ConcHas(c, hh)
    \/ \E c \in Clients, hh \in StoreInputs : ConcAddUpsert(c, hh)
    \/ \E c \in Clients : ConcAddReturn(c)
    \/ Tick

InitConc ==
    /\ files = [f \in Paths |-> NoFile]
    /\ keep \in KeepChoices
    /\ probe = NoProbe
    /\ InitRest

\* Two handles on the same table, their statements interleaved in any order.
SpecConc == InitConc /\ [][NextConc]_vars

InitHash ==
    /\ files = [f \in Paths |-> NoFile]
    /\ keep = 0
    /\ ProbeInput(probe)
    /\ InitRest

NextHash ==
    \/ ProbeRuleHash
    \/ ProbeContentHash

\* RuleHash and ContentHash applied to the rules and file systems of the probe.
SpecHash == InitHash /\ [][NextHash]_vars

\* ---------------------------------------------------------------- claims
Ops(p) == [i \in DOMAIN events[p] |-> events[p][i].op]
Called(p, op) == \E i \in DOMAIN events[p] : events[p][i].op = op
Failing(p, op) == \E i \in DOMAIN events[p] : events[p][i].op = op /\ events[p][i].err
LastEvent(p) == events[p][Len(events[p])]
\* A step of invocation p itself, as opposed to one of its environment.
OwnStep(p) == <<pc[p], idx[p], events[p]>>' # <<pc[p], idx[p], events[p]>>
CurrentHash == ContentHash(Rule, files, unreadable)

\* C1: an invocation in which Rule.Run returned an error has made no Add
\* call and has ended Failed with the error of Run as its last event, and
\* the step in which Run returns leaves the store's set of hashes as it was.
C1_Inv ==
    \A p \in Procs :
        Failing(p, "Run") =>
            /\ pc[p] = "failed"
            /\ err[p] = "in Run"
            /\ LastEvent(p).op = "Run"
            /\ ~Called(p, "Add")
C1_Step ==
    \A p \in Procs :
        (pc[p] = "run" /\ pc'[p] # "run") => DOMAIN table' = DOMAIN table
C1_FailedRunAddsNothing == []C1_Inv /\ [][C1_Step]_vars

C1_Witness ==
    \E p \in Procs : Failing(p, "Run") /\ pc[p] = "failed" /\ DOMAIN table # {}

\* C2: an invocation in which a ContentHash call failed makes no Add call,
\* and every hash that enters the store is the result of a successful
\* ContentHash that followed a successful Rule.Run in the same invocation.
C2_Inv ==
    \A p \in Procs :
        Failing(p, "ContentHash") => ~Called(p, "Add") /\ pc[p] = "failed"
C2_Step ==
    \A hh \in (DOMAIN table') \ (DOMAIN table) :
        \E p \in Procs :
            LET e == events'[p]
            IN /\ Len(e) = 5
               /\ e[3].op = "Run" /\ ~e[3].err
               /\ e[4].op = "ContentHash" /\ ~e[4].err /\ e[4].h = hh
               /\ e[5].op = "Add" /\ e[5].h = hh
C2_HashErrorAddsNothing == []C2_Inv /\ [][C2_Step]_vars

C2_Witness ==
    \E p \in Procs :
        /\ pc[p] = "failed" /\ err[p] = "recomputing content hash"
        /\ Called(p, "Run") /\ DOMAIN table # {}

\* C3: an invocation whose Has call found the hash has ended Satisfied with
\* no error, having called neither Rule.Run nor Add, and none of its steps
\* changed a declared file or the store's set of hashes.
C3_Inv ==
    \A p \in Procs :
        (\E i \in DOMAIN events[p] : events[p][i].op = "Has" /\ events[p][i].found) =>
            /\ pc[p] = "satisfied"
            /\ err[p] = "nil"
            /\ Ops(p) = <<"ContentHash", "Has">>
C3_Step ==
    \A p \in Procs :
        (OwnStep(p) /\ pc'[p] \in {"hash1", "has", "satisfied"}) =>
            /\ files' = files
            /\ unreadable' = unreadable
            /\ DOMAIN table' = DOMAIN table
C3_HitSkipsBuild == []C3_Inv /\ [][C3_Step]_vars

C3_Witness ==
    \E p \in Procs : pc[p] = "satisfied" /\ LastEvent(p).found

\* C5: an invocation that has called Add made its calls in the order
\* ContentHash, Has, Run, ContentHash, Add, and handed Add the hash the
\* second ContentHash returned.
C5_RecordsPostBuildHash ==
    \A p \in Procs :
        Called(p, "Add") =>
            /\ Ops(p) = <<"ContentHash", "Has", "Run", "ContentHash", "Add">>
            /\ events[p][2].h = events[p][1].h
            /\ ~events[p][2].found
            /\ events[p][5].h = events[p][4].h

C5_Witness ==
    \E p \in Procs :
        /\ pc[p] = "recorded"
        /\ events[p][5].h = events[p][4].h
        /\ events[p][1].h # events[p][4].h

\* C4: when an invocation reports the rule up to date, and the declared
\* files are still as it hashed them, every existing target was produced by
\* a Rule.Run that read the source contents the source has now (or at least
\* holds the bytes such a run writes).
C4_UpToDateMeansBuiltFromCurrentSources ==
    [][\A p \in Procs :
          (/\ pc[p] = "has" /\ pc'[p] = "satisfied"
           /\ ~CurrentHash.err /\ h[p] = CurrentHash.h) =>
              \A t \in Range(Rule.Targets) :
                  files[t] # NoFile =>
                      \/ builtFrom = files[Rule.Sources[1]]
                      \/ files[t] = RunEffect(files, "built").files[t]]_vars

\* C6: an invocation that started after a build was recorded, with no change
\* since to a declared file or to the store, is a cache hit and does not call
\* Rule.Run; and an invocation whose Has call is made while the declared
\* files are as it hashed them, in a state whose hash was never recorded, is
\* a cache miss that goes on to Rule.Run.
C6_Hit ==
    \A q \in Procs :
        (after[q] = "recorded" /\ pc[q] \notin {"idle", "hash1", "has"}) =>
            pc[q] = "satisfied" /\ ~Called(q, "Run")
C6_Miss ==
    \A q \in Procs :
        (/\ pc[q] = "has" /\ pc'[q] # "has" /\ dbOpen
         /\ ~CurrentHash.err /\ h[q] = CurrentHash.h
         /\ CurrentHash.h \notin DOMAIN table) =>
            pc'[q] = "run"
C6_HitThenMissOnChange == []C6_Hit /\ [][C6_Miss]_vars

C6_Witness ==
    \E q \in Procs :
        /\ after[q] = "recorded" /\ pc[q] = "satisfied"
        /\ \A t \in Range(Rule.Targets) : files[t] # NoFile

\* C7, as claimed: an invocation that started after a recorded build whose
\* target was then deleted, with no other change, computes a hash that
\* differs from the recorded one and goes on to Rule.Run.
C7_DeletedTargetAlwaysRebuilds ==
    \A q \in Procs :
        (after[q] = "deleted" /\ pc[q] \notin {"idle", "hash1", "has"}) =>
            /\ hPre[q] # cycleHash
            /\ Called(q, "Run") \/ pc[q] = "run"

\* C7, amended: such an invocation computes a hash that differs from the one
\* that build recorded; it is a cache miss that goes on to Rule.Run exactly
\* when that hash, of the state with the target missing, is not in the store.
C7_DeletedTargetRebuildsUnlessRecorded ==
    [][\A q \in Procs :
          (after[q] = "deleted" /\ pc[q] = "has" /\ pc'[q] # "has") =>
              /\ h[q] # cycleHash
              /\ pc'[q] = (IF h[q] \in DOMAIN table THEN "satisfied" ELSE "run")]_vars

C7_Witness ==
    \E q \in Procs :
        /\ after[q] = "deleted" /\ pc[q] = "run"
        /\ cycleHash \in DOMAIN table

\* A direct Add call has just returned.
AddCallStep == last'.op = "Add" /\ <<last, table>>' # <<last, table>>

\* C8: a Has(h) call on an open handle, made after an Add(h) returned nil and
\* before the retention window has elapsed since the last access of h,
\* returns true; closing and reopening the file in between changes nothing.
C8_HasAfterAdd ==
    (last.op = "Has" /\ last.owed) => (last.ok /\ ~last.err)

C8_Witness ==
    /\ last.op = "Has" /\ last.owed /\ last.ok
    /\ keep > 0
    /\ Cardinality(DOMAIN table) >= 2

\* C9: an Add call on a handle with retention window keep returns nil, and
\* after it every other entry last accessed at or before now - keep is gone
\* and every other entry accessed later than that is still there.
C9_AddEvictsExpired ==
    [][(AddCallStep /\ dbOpen /\ keep > 0) =>
          /\ ~last'.err
          /\ \A k \in (DOMAIN table) \ {last'.h} :
                (k \in DOMAIN table') <=> (table[k] + keep > now)]_vars

\* C10: on a handle opened without a retention window no step removes a
\* hash from the store.
C10_NoEvictionByDefault ==
    [][keep = 0 => (DOMAIN table) \subseteq (DOMAIN table')]_vars

C10_Witness ==
    /\ keep = 0 /\ dbOpen
    /\ last.op = "Add" /\ last.ok
    /\ \E k \in DOMAIN table : k # last.h /\ table[k] < now

\* A direct Has call has just returned.
HasCallStep == last'.op = "Has" /\ <<last, table>>' # <<last, table>>

\* C11: an Add(h) call on an open handle returns nil and leaves the store as
\* it was except that h is in it with timestamp now (one new entry if h was
\* absent, the same set of hashes if it was present), and a second Add(h)
\* would leave the set of hashes as the first left it.
C11_AddIdempotentUpsert ==
    [][(AddCallStep /\ dbOpen) =>
          /\ ~last'.err
          /\ table' = MapPut(table, last'.h, now)
          /\ DOMAIN DBAdd(table', last'.h, now, keep).table = DOMAIN table']_vars

\* C12: a Has(h) call on an open handle returns false with no error and
\* leaves the store as it was when h is absent, and returns true and sets
\* the timestamp of h to now, leaving every other entry alone, when h is
\* present.
C12_HasFrame ==
    [][HasCallStep =>
          IF last'.h \in DOMAIN table
          THEN /\ last'.ok /\ ~last'.err
               /\ table' = [table EXCEPT ![last'.h] = now]
          ELSE /\ ~last'.ok /\ ~last'.err
               /\ table' = table]_vars

C12_Witness ==
    /\ last.op = "Has" /\ last.ok /\ ~last.err
    /\ table[last.h] = now
    /\ \E k \in DOMAIN table : k # last.h /\ table[k] < now

\* C13: under every interleaving of the statements of Has and Add calls of
\* several handles, no two rows of the table have the same hash, and every
\* row has a hash that was added and a timestamp of the clock.
C13_EntriesConsistent ==
    /\ \A r1, r2 \in rows : r1.hash = r2.hash => r1 = r2
    /\ \A r \in rows : DOMAIN r = {"hash", "secs"} /\ r.hash \in StoreInputs /\ r.secs \in 0..now

\* Two Adds of the same hash in flight at once, begun at different times,
\* beside another entry.
C13_Witness ==
    /\ \E c, d \in Clients :
          c # d /\ cpc[c] = "evict" /\ cpc[d] = "evict" /\ carg[c].h = carg[d].h
          /\ carg[d].had
    /\ Cardinality(rows) >= 2
    /\ now > 0

\* C14: on handles with a retention window, while an Add is between its
\* upsert and its eviction no other handle completes a statement, and an Add
\* that returns the error of its eviction has not left in the table a hash
\* that was not there before it.
C14_AddIsAtomic ==
    [][\A c \in Clients : keep > 0 =>
          /\ (cpc[c] = "evict" /\ cpc'[c] = "evict") =>
                /\ rows' = rows
                /\ \A d \in Clients \ {c} : cpc'[d] = cpc[d] /\ cres'[d] = cres[d]
          /\ (cpc[c] = "evict" /\ cpc'[c] = "idle" /\ cres'[c] = "error") =>
                (carg[c].had \/ ~Conflicts(rows', carg[c].h))]_vars

C15_Inv ==
    \A p \in Procs :
        cancelled[p] =>
            /\ pc[p] \in {"hash1", "has", "run", "hash2", "add", "failed"}
            /\ Called(p, "Add") =>
                  /\ pc[p] = "failed"
                  /\ LastEvent(p).op = "Add" /\ LastEvent(p).err
C15_Step ==
    \A p \in Procs : (cancelled[p] /\ OwnStep(p)) => table' = table
IsPerm(s, t) ==
    \A x \in Range(s) \cup Range(t) :
        Cardinality({i \in DOMAIN s : s[i] = x}) = Cardinality({i \in DOMAIN t : t[i] = x})

\* C16: two rules have the same RuleHash exactly when their sources are a
\* permutation of each other, their targets are a permutation of each other
\* and their commands are the same tokens in the same order.
C16_RuleHashIdentity ==
    probe.stage = "ruleHashes" =>
        ((probe.rh1 = probe.rh2) <=>
            /\ IsPerm(probe.r1.Sources, probe.r2.Sources)
            /\ IsPerm(probe.r1.Targets, probe.r2.Targets)
            /\ probe.r1.Command = probe.r2.Command)

\* C17: of two successful ContentHash calls, those of one rule on the same
\* file system return the same hash, those of one rule on file systems that
\* differ in a declared file return different hashes, and those of rules
\* that differ in a command token return different hashes.
C17_ContentHashFunction ==
    (probe.stage = "contentHashes" /\ ~probe.ch1.err /\ ~probe.ch2.err) =>
        LET declared == Range(probe.r1.Sources) \cup Range(probe.r1.Targets)
            sameFiles == \A f \in declared : probe.fs1[f] = probe.fs2[f]
        IN /\ (probe.r1 = probe.r2 /\ sameFiles) => probe.ch1.h = probe.ch2.h
           /\ (probe.r1 = probe.r2 /\ ~sameFiles) => probe.ch1.h # probe.ch2.h
           /\ probe.r1.Command # probe.r2.Command => probe.ch1.h # probe.ch2.h

\* C18: when ContentHash comes to a declared file that does not exist it
\* stores the nil marker under the file's path and goes on without an error;
\* when it comes to a file that exists and cannot be read it returns an
\* error and no hash, and the invocation ends Failed.
C18_MissingIsNilOtherErrorsFail ==
    [][\A p \in Procs :
          (pc[p] \in {"hash1", "hash2"} /\ OwnStep(p)) =>
              LET order == ReadOrder(Rule)
                  file == order[idx[p]]
                  isSrc == idx[p] <= Len(Rule.Sources)
                  s2 == IF isSrc THEN MapPut(srcs[p], file, NilBytes) ELSE srcs[p]
                  t2 == IF isSrc THEN tgts[p] ELSE MapPut(tgts[p], file, NilBytes)
              IN /\ files[file] = NoFile =>
                      IF idx[p] < Len(order)
                      THEN srcs'[p] = s2 /\ tgts'[p] = t2 /\ pc'[p] = pc[p]
                      ELSE /\ pc'[p] \in {"has", "add"}
                           /\ h'[p] = MarshalSum(s2, t2, Rule.Command)
                           /\ ~LastEvent(p)'.err
                 /\ (files[file] # NoFile /\ file \in unreadable) =>
                      /\ pc'[p] = "failed"
                      /\ h'[p] = NilHash
                      /\ LastEvent(p)'.op = "ContentHash" /\ LastEvent(p)'.err]_vars

\* A ContentHash that stored the nil marker for a missing source and then
\* failed on an unreadable target.
C18_Witness ==
    \E p \in Procs :
        /\ pc[p] = "failed" /\ err[p] = "computing content hash"
        /\ \E f \in DOMAIN srcs[p] : srcs[p][f] = NilBytes

\* C19: an invocation whose Rule.Run returned success while a declared target
\* is missing, with every file readable and unchanged since, an open handle
\* without retention window, ends Recorded with the hash
\* of the current files, nil marker for the missing target included, in the
\* store; and the invocation that starts after that recording, nothing
\* having changed, ends Satisfied without a call of Rule.Run.
C19_MissingTargetIsRecorded ==
    \A p \in Procs :
        \A t \in Range(Rule.Targets) :
            /\ (/\ files[t] = NoFile /\ unreadable = {}
                /\ ranClean[p] /\ pc[p] \in Terminal
                /\ dbOpen /\ keep = 0) =>
                    /\ pc[p] = "recorded"
                    /\ LastEvent(p).h = CurrentHash.h
                    /\ LastEvent(p).h \in DOMAIN table
                    /\ \E i \in DOMAIN LastEvent(p).h.sum.targets :
                          LastEvent(p).h.sum.targets[i] = <<t, NilBytes>>
            /\ (/\ files[t] = NoFile /\ after[p] = "recorded"
                /\ pc[p] \notin {"idle", "hash1", "has"}) =>
                    /\ pc[p] = "satisfied"
                    /\ Ops(p) = <<"ContentHash", "Has">>

C19_Witness ==
    \E p \in Procs :
        /\ after[p] = "recorded" /\ pc[p] = "satisfied"
        /\ \E t \in Range(Rule.Targets) : files[t] = NoFile

\* C20: on an open handle without retention window, an invocation whose
\* content hash is one that an Add has recorded, however long ago and
\* whatever was recorded since, is a cache hit.
C20_EveryRecordedStateHits ==
    [][\A q \in Procs :
          (/\ pc[q] = "has" /\ pc'[q] # "has"
           /\ dbOpen /\ keep = 0
           /\ h[q] \in DOMAIN addedOK) =>
              pc'[q] = "satisfied"]_vars

\* A hit on a state recorded before the one recorded last.
C20_Witness ==
    \E q \in Procs :
        /\ pc[q] = "satisfied" /\ keep = 0
        /\ h[q] \in DOMAIN addedOK
        /\ cycleHash \in DOMAIN addedOK
        /\ h[q] # cycleHash
        /\ h[q] = CurrentHash.h

====
